---- MODULE Spec2Model ----
(***************************************************************************)
(* A model of azure-lint: the rule definition language parser              *)
(* (src/src/parser.rs), the rule data model (src/src/rules.rs), the Azure  *)
(* resource model and identifier parser (src/src/azurerm), and the         *)
(* compliance evaluator and aggregation of src/src/main.rs.                *)
(*                                                                         *)
(* A Rust string is a sequence of one-character strings.                   *)
(***************************************************************************)
EXTENDS Integers, Sequences, FiniteSets, TLC

VARIABLES
  pc,                \* position of the program
  rules,             \* main.rs: the parsed Vec<Rule> handed to azure_lint
  resources,         \* main.rs:114  Vec<Resource> returned by get_resources
  compliance,        \* main.rs:116  Vec<ResourceCompliance> collected so far
  group_compliance,  \* main.rs:121  the fold's accumulator
  folded,            \* how many elements of compliance the fold has consumed
  score,             \* main.rs:158  the printed percentage
  selector,          \* the Selector handed to Resource::selector_applies
  resource,          \* the Resource it is applied to
  applies,           \* the value selector_applies returned
  file,              \* the layout of the rule file that is parsed
  contents,          \* parser.rs:127  the text of the rule file
  parsed,            \* the outcome of parse_rules
  response,          \* azurerm/mod.rs:171  the records of json["value"]
  fetched            \* the outcome of Client::get_resources

vars == <<pc, rules, resources, compliance, group_compliance, folded, score,
          selector, resource, applies, file, contents, parsed, response, fetched>>

----------------------------------------------------------------------------
(* Bounds of the model *)

MaxRules == 3

MaxResources == 2

MaxRecords == 2

MaxSepLen == 2

MaxBlocks == 2

MaxConditions == 2

----------------------------------------------------------------------------
(* Characters and the character classes the parsers test *)

Lower == {"a", "b", "c", "d", "e", "f", "g", "h", "i", "j", "k", "l", "m",
          "n", "o", "p", "q", "r", "s", "t", "u", "v", "w", "x", "y", "z"}

Upper == {"A", "B", "C", "D", "E", "F", "G", "H", "I", "J", "K", "L", "M",
          "N", "O", "P", "Q", "R", "S", "T", "U", "V", "W", "X", "Y", "Z"}

Digit == {"0", "1", "2", "3", "4", "5", "6", "7", "8", "9"}

\* the characters of the model for which char::is_alphabetic holds
is_alphabetic == Lower \cup Upper

is_alphanumeric == Lower \cup Upper \cup Digit

\* nom's space1 and multispace1
IsSpace == {" ", "\t"}

IsMultispace == {" ", "\t", "\r", "\n"}

SelectorChar == is_alphanumeric \cup {".", "-", "_", "*"}

NameChar == is_alphanumeric \cup {"-"} \cup {"-"} \cup {" "}

Star == <<"*">>

AZURE == <<"a", "z", "u", "r", "e">>

----------------------------------------------------------------------------
(* nom combinators.  A parser takes the input i and the number pos of      *)
(* characters already consumed, and returns the number consumed after it,  *)
(* or Fail for Err(Error).  Panic stands for an unwrap that panicked.  In  *)
(* a tuple((..)) a parser that comes after a failed one is not run: here   *)
(* it hands on the failure it is given as its position.                    *)

Fail == -1

Panic == -2

Min(S) == CHOOSE x \in S : \A y \in S : x <= y

tag(t, i, pos) ==
  IF pos < 0 THEN pos
  ELSE IF pos + Len(t) <= Len(i) /\ SubSeq(i, pos + 1, pos + Len(t)) = t
  THEN pos + Len(t) ELSE Fail

\* the offsets from pos on at which t stands
Found(t, i, pos) ==
  {p \in pos..Len(i) : p + Len(t) <= Len(i) /\ SubSeq(i, p + 1, p + Len(t)) = t}

take_until(t, i, pos) ==
  IF pos < 0 THEN pos
  ELSE IF Found(t, i, pos) = {} THEN Fail ELSE Min(Found(t, i, pos))

\* the offset after the longest run of characters of the class from pos
RunEnd(class, i, pos) ==
  Min({p \in pos..Len(i) : p = Len(i) \/ i[p + 1] \notin class})

take_while1(class, i, pos) ==
  IF pos < 0 THEN pos
  ELSE IF RunEnd(class, i, pos) = pos THEN Fail ELSE RunEnd(class, i, pos)

alpha1(i, pos) == take_while1(is_alphabetic, i, pos)

space1(i, pos) == take_while1(IsSpace, i, pos)

multispace1(i, pos) == take_while1(IsMultispace, i, pos)

\* the characters a parser took, between two offsets
Text(i, from, to) == IF from < 0 \/ to < 0 THEN <<>> ELSE SubSeq(i, from + 1, to)

----------------------------------------------------------------------------
(* rules.rs: Selector, Property, Condition, Rule *)

\* str::split('.'): the parts of value between the dots, at least one part
RECURSIVE Split(_, _)
Split(value, acc) ==
  IF value = <<>> THEN <<acc>>
  ELSE IF Head(value) = "." THEN <<acc>> \o Split(Tail(value), <<>>)
  ELSE Split(Tail(value), Append(acc, Head(value)))

Part(parts, n) == IF n <= Len(parts) THEN parts[n] ELSE Star

SelectorTryFrom(value) ==
  LET parts == Split(value, <<>>)
  IN  [cloud |-> Part(parts, 1), group |-> Part(parts, 2),
       kind |-> Part(parts, 3), name |-> Part(parts, 4),
       full_selector |-> value]

PropName == <<"n", "a", "m", "e">>

PropType == <<"t", "y", "p", "e">>

PropGroup == <<"g", "r", "o", "u", "p">>

PropertyTryFrom(value) ==
  IF value = PropName THEN [tag |-> "Name", key |-> <<>>]
  ELSE IF value = PropType THEN [tag |-> "Kind", key |-> <<>>]
  ELSE IF value = PropGroup THEN [tag |-> "Group", key |-> <<>>]
  ELSE [tag |-> "Custom", key |-> value]

\* Regex::new, for patterns made of literal letters and digits, ^ and $.
\* A pattern with an opening parenthesis that is never closed does not
\* compile; a pattern with any other character is taken not to compile, and
\* the files of the model have one only where the parse fails either way.
RegexChar == is_alphanumeric \cup {"^", "$"}

RegexNew(pattern) ==
  [ok |-> \A k \in 1..Len(pattern) : pattern[k] \in RegexChar, pattern |-> pattern]

\* whether the rest of the pattern, from its k-th character, matches at pos
RECURSIVE MatchAt(_, _, _, _)
MatchAt(pattern, k, value, pos) ==
  IF k > Len(pattern) THEN TRUE
  ELSE IF pattern[k] = "^" THEN pos = 0 /\ MatchAt(pattern, k + 1, value, pos)
  ELSE IF pattern[k] = "$"
       THEN pos = Len(value) /\ MatchAt(pattern, k + 1, value, pos)
  ELSE pos < Len(value) /\ value[pos + 1] = pattern[k]
       /\ MatchAt(pattern, k + 1, value, pos + 1)

is_match(pattern, value) ==
  \E start \in 0..Len(value) : MatchAt(pattern, 1, value, start)

is_compliant(condition, value) ==
  IF condition.tag = "Equal" THEN condition.text = value
  ELSE is_match(condition.text, value)

Equal(expected) == [tag |-> "Equal", text |-> expected]

Match(pattern) == [tag |-> "Match", text |-> pattern]

Rule(sel, property, condition) ==
  [selector |-> sel, property |-> property, condition |-> condition]

----------------------------------------------------------------------------
(* serde_json::Value *)

NoFields == [k \in {} |-> <<>>]

Null == [kind |-> "Null", str |-> <<>>, fields |-> NoFields]

String(s) == [kind |-> "String", str |-> s, fields |-> NoFields]

\* a number, with the text of its digits
Number(digits) == [kind |-> "Number", str |-> digits, fields |-> NoFields]

Bool(word) == [kind |-> "Bool", str |-> word, fields |-> NoFields]

Array == [kind |-> "Array", str |-> <<>>, fields |-> NoFields]

Object(fields) == [kind |-> "Object", str |-> <<>>, fields |-> fields]

\* value[key]: Null unless value is an object that has the key
Index(value, key) ==
  IF value.kind = "Object" /\ key \in DOMAIN value.fields
  THEN value.fields[key] ELSE Null

None == [some |-> FALSE, val |-> <<>>]

Some(v) == [some |-> TRUE, val |-> v]

\* as_str that also hands out the text of a number
as_str_coercing(value) ==
  IF value.kind \in {"String", "Number"} THEN Some(value.str) ELSE None

as_str(value) == IF value.kind = "String" THEN Some(value.str) ELSE None

----------------------------------------------------------------------------
(* azurerm/parser.rs: the resource identifier *)

TagSubscriptions ==
  <<"/", "s", "u", "b", "s", "c", "r", "i", "p", "t", "i", "o", "n", "s", "/">>

TagResourceGroups ==
  <<"/", "r", "e", "s", "o", "u", "r", "c", "e", "G", "r", "o", "u", "p", "s", "/">>

TagProviders == <<"/", "p", "r", "o", "v", "i", "d", "e", "r", "s", "/">>

Slash == <<"/">>

\* tuple((...)): each parser in turn, from where the one before stopped
IdParser(i) ==
  LET p1 == tag(TagSubscriptions, i, 0)
      p2 == take_until(Slash, i, p1)
      p3 == tag(TagResourceGroups, i, p2)
      p4 == take_until(Slash, i, p3)
      p5 == tag(TagProviders, i, p4)
      p6 == take_until(Slash, i, p5)
      p7 == tag(Slash, i, p6)
      p8 == take_until(Slash, i, p7)
      p9 == tag(Slash, i, p8)
      p10 == take_while1(NameChar, i, p9)
  IN  [end |-> p10,
       val |-> IF p10 = Fail THEN <<>>
               ELSE <<Text(i, p1, p2), Text(i, p3, p4), Text(i, p5, p6),
                      Text(i, p7, p8), Text(i, p9, p10)>>]

\* all_consuming(parser)(i).unwrap(): a panic unless the whole of i is parsed
parse_id(i) ==
  LET r == IdParser(i)
  IN  IF r.end = Fail \/ r.end # Len(i)
      THEN [outcome |-> "panic", val |-> <<>>]
      ELSE [outcome |-> "some", val |-> r.val]

----------------------------------------------------------------------------
(* azurerm/mod.rs: Id and Resource *)

ServerFarms ==
  <<"M", "i", "c", "r", "o", "s", "o", "f", "t", ".", "W", "e", "b", "/",
    "s", "e", "r", "v", "e", "r", "F", "a", "r", "m", "s">>

Sites ==
  <<"M", "i", "c", "r", "o", "s", "o", "f", "t", ".", "W", "e", "b", "/",
    "s", "i", "t", "e", "s">>

AppServicePlan ==
  <<"a", "p", "p", "_", "s", "e", "r", "v", "i", "c", "e", "_", "p", "l", "a", "n">>

AppService == <<"a", "p", "p", "_", "s", "e", "r", "v", "i", "c", "e">>

translate_kind(kind) ==
  IF kind = ServerFarms THEN AppServicePlan
  ELSE IF kind = Sites THEN AppService
  ELSE kind

\* impl TryFrom<&str> for Id
IdTryFrom(value) ==
  LET r == parse_id(value)
  IN  IF r.outcome = "panic" THEN [outcome |-> "panic", val |-> <<>>]
      ELSE [outcome |-> "ok",
            val |-> [subscription_id |-> r.val[1],
                     resource_group |-> r.val[2],
                     kind |-> translate_kind(r.val[3] \o Slash \o r.val[4]),
                     name |-> r.val[5]]]

KeyId == <<"i", "d">>

\* impl TryFrom<Value> for Resource
ResourceTryFrom(value) ==
  LET s == as_str(Index(value, KeyId))
  IN  IF ~s.some THEN [outcome |-> "err", val |-> <<>>]
      ELSE LET id == IdTryFrom(s.val)
           IN  IF id.outcome = "panic" THEN [outcome |-> "panic", val |-> <<>>]
               ELSE [outcome |-> "ok", val |-> [id |-> id.val, value |-> value]]

Name(r) == r.id.name

Kind(r) == r.id.kind

Group(r) == r.id.resource_group

get_property(r, property) ==
  CASE property.tag = "Name" -> String(Name(r))
    [] property.tag = "Kind" -> String(Kind(r))
    [] property.tag = "Group" -> String(Group(r))
    [] property.tag = "Custom" -> Index(r.value, property.key)

\* selector_applies without the test of the cloud
selector_applies_any_cloud(r, sel) ==
  /\ (sel.group = Group(r) \/ sel.group = Star)
  /\ (sel.kind = Kind(r) \/ sel.kind = Star)
  /\ (sel.name = Name(r) \/ sel.name = Star)

selector_applies(r, sel) ==
  /\ (sel.cloud = AZURE \/ sel.cloud = Star)
  /\ (sel.group = Group(r) \/ sel.group = Star)
  /\ (sel.kind = Kind(r) \/ sel.kind = Star)
  /\ (sel.name = Name(r) \/ sel.name = Star)

----------------------------------------------------------------------------
(* main.rs: evaluation of the rules against one resource *)

\* the loop body without the test of the selector
RuleBucket_unselected(r, rule) ==
  LET prop == get_property(r, rule.property)
      s == as_str(prop)
  IN  IF s.some /\ is_compliant(rule.condition, s.val)
      THEN "compliant" ELSE "noncompliant"

\* the body of the loop of evaluate_rules: the list the rule is pushed to
RuleBucket(r, rule) ==
  IF selector_applies(r, rule.selector)
  THEN LET prop == get_property(r, rule.property)
           s == as_str(prop)
       IN  IF s.some /\ is_compliant(rule.condition, s.val)
           THEN "compliant" ELSE "noncompliant"
  ELSE "nonapplicable"

\* the lists of evaluate_rules with each rule put in front of the ones
\* before it
evaluate_rules_prepending(r, rs) ==
  LET Reversed(seq) == [k \in DOMAIN seq |-> seq[Len(seq) + 1 - k]]
  IN  [resource_name |-> Name(r),
       resource_type |-> Kind(r),
       compliant_rules |->
         Reversed(SelectSeq(rs, LAMBDA rule : RuleBucket(r, rule) = "compliant")),
       noncompliant_rules |->
         Reversed(SelectSeq(rs, LAMBDA rule : RuleBucket(r, rule) = "noncompliant"))]

evaluate_rules(r, rs) ==
  [resource_name |-> Name(r),
   resource_type |-> Kind(r),
   compliant_rules |->
     SelectSeq(rs, LAMBDA rule : RuleBucket(r, rule) = "compliant"),
   noncompliant_rules |->
     SelectSeq(rs, LAMBDA rule : RuleBucket(r, rule) = "noncompliant")]

\* ResourceGroupCompliance::default()
DefaultGroupCompliance ==
  [resource_count |-> 0, compliant_resources |-> 0,
   noncompliant_resources |-> 0, evaluated_rules |-> 0,
   compliant_rule_evaluations |-> 0, noncompliant_rule_evaluations |-> 0]

\* the fold step that leaves the noncompliant rules out of evaluated_rules
accumulate_uncounted(gc, rc) ==
  LET is_compliant_ == Len(rc.noncompliant_rules) > 0
  IN  [resource_count |-> gc.resource_count + 1,
       compliant_resources |->
         gc.compliant_resources + (IF is_compliant_ THEN 1 ELSE 0),
       noncompliant_resources |->
         gc.noncompliant_resources + (IF is_compliant_ THEN 0 ELSE 1),
       evaluated_rules |-> gc.evaluated_rules + Len(rc.compliant_rules),
       compliant_rule_evaluations |->
         gc.compliant_rule_evaluations + Len(rc.compliant_rules),
       noncompliant_rule_evaluations |->
         gc.noncompliant_rule_evaluations + Len(rc.noncompliant_rules)]

\* the fold step that keeps the last resource's compliant count, not the sum
accumulate_overwriting(gc, rc) ==
  LET is_compliant_ == Len(rc.noncompliant_rules) > 0
  IN  [resource_count |-> gc.resource_count + 1,
       compliant_resources |->
         gc.compliant_resources + (IF is_compliant_ THEN 1 ELSE 0),
       noncompliant_resources |->
         gc.noncompliant_resources + (IF is_compliant_ THEN 0 ELSE 1),
       evaluated_rules |->
         gc.evaluated_rules + Len(rc.compliant_rules)
           + Len(rc.noncompliant_rules),
       compliant_rule_evaluations |-> Len(rc.compliant_rules),
       noncompliant_rule_evaluations |->
         gc.noncompliant_rule_evaluations + Len(rc.noncompliant_rules)]

accumulate_group_compliance(gc, rc) ==
  LET is_compliant_ == Len(rc.noncompliant_rules) > 0
  IN  [resource_count |-> gc.resource_count + 1,
       compliant_resources |->
         gc.compliant_resources + (IF is_compliant_ THEN 1 ELSE 0),
       noncompliant_resources |->
         gc.noncompliant_resources + (IF is_compliant_ THEN 0 ELSE 1),
       evaluated_rules |->
         gc.evaluated_rules + Len(rc.compliant_rules)
           + Len(rc.noncompliant_rules),
       compliant_rule_evaluations |->
         gc.compliant_rule_evaluations + Len(rc.compliant_rules),
       noncompliant_rule_evaluations |->
         gc.noncompliant_rule_evaluations + Len(rc.noncompliant_rules)]

\* compliant_rule_evaluations as f64 / evaluated_rules as f64 * 100.0:
\* the quotient num/den, and NaN for 0.0 / 0.0
NoScore == [kind |-> "none", num |-> 0, den |-> 1]

Score(gc) ==
  IF gc.evaluated_rules = 0
  THEN IF gc.compliant_rule_evaluations = 0
       THEN [kind |-> "NaN", num |-> 0, den |-> 1]
       ELSE [kind |-> "inf", num |-> 0, den |-> 1]
  ELSE [kind |-> "finite", num |-> gc.compliant_rule_evaluations * 100,
        den |-> gc.evaluated_rules]

----------------------------------------------------------------------------
(* The inputs of the evaluation: records of resources as Azure returns     *)
(* them, and rules as the parser builds them                               *)

Seqs(S, n) == UNION {[1..k -> S] : k \in 0..n}

IdText(group, provider, kind, name) ==
  TagSubscriptions \o <<"s", "1">> \o TagResourceGroups \o group
    \o TagProviders \o provider \o Slash \o kind \o Slash \o name

MicrosoftWeb == <<"M", "i", "c", "r", "o", "s", "o", "f", "t", ".", "W", "e", "b">>

KeyLocation == <<"l", "o", "c", "a", "t", "i", "o", "n">>

KeyTier == <<"t", "i", "e", "r">>

\* an app service n1 in rg: a string location, a numeric tier
RecSite ==
  Object((KeyId :> String(IdText(<<"r", "g">>, MicrosoftWeb,
                                 <<"s", "i", "t", "e", "s">>, <<"n", "1">>)))
         @@ (KeyLocation :> String(<<"u", "k">>))
         @@ (KeyTier :> Number(<<"1">>)))

\* an app service plan n2 in rg: another location, a string tier
RecFarm ==
  Object((KeyId :> String(IdText(<<"r", "g">>, MicrosoftWeb,
                                 <<"s", "e", "r", "v", "e", "r", "F", "a", "r", "m", "s">>,
                                 <<"n", "2">>)))
         @@ (KeyLocation :> String(<<"U", "K">>))
         @@ (KeyTier :> String(<<"1">>)))

\* a resource of an unmapped kind in RG: no location, a boolean tier
RecOther ==
  Object((KeyId :> String(IdText(<<"R", "G">>, <<"P">>, <<"k">>, <<"n", "1">>)))
         @@ (KeyTier :> Bool(<<"t", "r", "u", "e">>)))

ResourceSet == {ResourceTryFrom(rec).val : rec \in {RecSite, RecFarm, RecOther}}

RuleSet ==
  { Rule(SelectorTryFrom(AZURE), PropertyTryFrom(KeyLocation),
         Equal(<<"u", "k">>)),
    Rule(SelectorTryFrom(AZURE), PropertyTryFrom(KeyTier), Match(<<"1">>)),
    Rule(SelectorTryFrom(<<"*", ".", "r", "g", ".">> \o AppService),
         PropertyTryFrom(PropName), Match(<<"^", "n">>)),
    Rule(SelectorTryFrom(<<"a", "z", "u", "r", "e", ".", "*", ".", "*", ".", "n", "1">>),
         PropertyTryFrom(KeyLocation), Match(<<"k", "$">>)),
    Rule(SelectorTryFrom(<<"a", "z", "u", "r", "e", ".", "R", "G">>),
         PropertyTryFrom(PropGroup), Equal(<<"R", "G">>)),
    Rule(SelectorTryFrom(<<"a", "z", "u", "r", "e", ".", "r", "g">>),
         PropertyTryFrom(PropType), Match(<<"p", "l", "a", "n", "$">>)) }

----------------------------------------------------------------------------
(* azure_lint and main, from the rules and the resources on *)

Init ==
  /\ pc = "lint"
  /\ rules \in Seqs(RuleSet, MaxRules)
  /\ resources \in Seqs(ResourceSet, MaxResources)
  /\ compliance = <<>>
  /\ group_compliance = DefaultGroupCompliance
  /\ folded = 0
  /\ score = NoScore
  /\ selector = SelectorTryFrom(Star) /\ resource = <<>> /\ applies = FALSE
  /\ file = <<>> /\ contents = <<>> /\ parsed = <<>>
  /\ response = <<>> /\ fetched = <<>>

\* main.rs:116-119  one resource of resources.iter().map(evaluate_rules)
Evaluate ==
  /\ pc = "lint"
  /\ Len(compliance) < Len(resources)
  /\ compliance' =
       Append(compliance, evaluate_rules(resources[Len(compliance) + 1], rules))
  /\ UNCHANGED <<pc, rules, resources, group_compliance, folded, score,
                 selector, resource, applies, file, contents, parsed,
                 response, fetched>>

\* main.rs:121-124  one step of compliance.iter().fold
Accumulate ==
  /\ pc = "lint"
  /\ Len(compliance) = Len(resources)
  /\ folded < Len(compliance)
  /\ group_compliance' =
       accumulate_group_compliance(group_compliance, compliance[folded + 1])
  /\ folded' = folded + 1
  /\ UNCHANGED <<pc, rules, resources, compliance, score,
                 selector, resource, applies, file, contents, parsed,
                 response, fetched>>

\* main.rs:156-163  the score line
PrintScore ==
  /\ pc = "lint"
  /\ Len(compliance) = Len(resources)
  /\ folded = Len(compliance)
  /\ score' = Score(group_compliance)
  /\ pc' = "done"
  /\ UNCHANGED <<rules, resources, compliance, group_compliance, folded,
                 selector, resource, applies, file, contents, parsed,
                 response, fetched>>

Next == Evaluate \/ Accumulate \/ PrintScore

Spec == Init /\ [][Next]_vars

----------------------------------------------------------------------------
(* Properties of the evaluation and the aggregation *)

Count(x, seq) == Cardinality({k \in DOMAIN seq : seq[k] = x})

InSeq(x, seq) == \E k \in DOMAIN seq : seq[k] = x

RECURSIVE SumLen(_, _, _)
\* the sum of the lengths of the given list of cs[1] .. cs[n]
SumLen(list, cs, n) ==
  IF n = 0 THEN 0 ELSE SumLen(list, cs, n - 1) + Len(cs[n][list])

\* C1: evaluate_rules partitions the rules.  Every occurrence of a rule whose
\* selector applies to the resource is in exactly one of the compliant and
\* noncompliant lists, a rule whose selector does not apply is in neither,
\* and the two lengths add up to the number of applicable rules.
C1_EvaluatePartitions ==
  \A n \in DOMAIN compliance :
    LET r == resources[n]
        rc == compliance[n]
        applicable == {k \in DOMAIN rules : selector_applies(r, rules[k].selector)}
    IN  /\ \A k \in DOMAIN rules :
             /\ Count(rules[k], rc.compliant_rules)
                  + Count(rules[k], rc.noncompliant_rules)
                = IF k \in applicable THEN Count(rules[k], rules) ELSE 0
             /\ ~(InSeq(rules[k], rc.compliant_rules)
                  /\ InSeq(rules[k], rc.noncompliant_rules))
        /\ Len(rc.compliant_rules) + Len(rc.noncompliant_rules)
             = Cardinality(applicable)

\* a resource evaluated against a compliant, a noncompliant and an
\* inapplicable rule
C1_Witness ==
  \E n \in DOMAIN compliance :
    /\ Len(compliance[n].compliant_rules) = 1
    /\ Len(compliance[n].noncompliant_rules) = 1
    /\ Len(rules) = 3

\* C2: in every fold step a resource with no noncompliant rule increments
\* compliant_resources and not noncompliant_resources, and a resource with
\* at least one noncompliant rule increments noncompliant_resources and not
\* compliant_resources.
C2_FoldStepClassifies ==
  [][folded' = folded + 1 =>
       LET rc == compliance[folded']
           zero == Len(rc.noncompliant_rules) = 0
       IN  /\ group_compliance'.compliant_resources
                = group_compliance.compliant_resources + (IF zero THEN 1 ELSE 0)
           /\ group_compliance'.noncompliant_resources
                = group_compliance.noncompliant_resources
                    + (IF zero THEN 0 ELSE 1)]_vars

\* C5: for an applicable rule, a value of get_property that is not a string
\* puts the rule in the noncompliant list under either kind of condition,
\* and a rule is in the compliant list only when the value is a string that
\* satisfies the condition: the expected string itself for Equal, a string
\* the pattern matches somewhere in for Match.
C5_NonStringNoncompliant ==
  \A n \in DOMAIN compliance :
    \A k \in DOMAIN rules :
      selector_applies(resources[n], rules[k].selector) =>
        LET v == get_property(resources[n], rules[k].property)
            cond == rules[k].condition
        IN  /\ v.kind # "String" =>
                 /\ InSeq(rules[k], compliance[n].noncompliant_rules)
                 /\ ~InSeq(rules[k], compliance[n].compliant_rules)
            /\ InSeq(rules[k], compliance[n].compliant_rules) =>
                 /\ v.kind = "String"
                 /\ IF cond.tag = "Equal" THEN v.str = cond.text
                    ELSE \E start \in 0..Len(v.str) :
                           MatchAt(cond.text, 1, v.str, start)

\* an applicable Match rule on a number whose digits the pattern would
\* match, and an applicable Equal rule on a key the resource does not have
C5_Witness ==
  \E n, m \in DOMAIN compliance :
    \E k, j \in DOMAIN rules :
      /\ selector_applies(resources[n], rules[k].selector)
      /\ selector_applies(resources[m], rules[j].selector)
      /\ rules[k].condition.tag = "Match"
      /\ get_property(resources[n], rules[k].property).kind = "Number"
      /\ is_match(rules[k].condition.text,
                  get_property(resources[n], rules[k].property).str)
      /\ rules[j].condition.tag = "Equal"
      /\ rules[j].property.tag = "Custom"
      /\ rules[j].property.key \notin DOMAIN resources[m].value.fields
      /\ InSeq(rules[k], compliance[n].noncompliant_rules)
      /\ InSeq(rules[j], compliance[m].noncompliant_rules)

\* C6: the score is compliant_rule_evaluations / evaluated_rules * 100, and
\* with evaluated_rules = 0 it is still a defined number.
C6_ScoreDefined ==
  pc = "done" =>
    /\ score.kind = "finite"
    /\ score.num * group_compliance.evaluated_rules
         = group_compliance.compliant_rule_evaluations * 100 * score.den

\* C9: after every step of the fold from the default aggregate,
\* resource_count is the number of values folded, the two rule counters are
\* the sums of the lengths of the lists folded, and evaluated_rules is the
\* sum of both.
C9_FoldSums ==
  /\ group_compliance.resource_count = folded
  /\ group_compliance.compliant_rule_evaluations
       = SumLen("compliant_rules", compliance, folded)
  /\ group_compliance.noncompliant_rule_evaluations
       = SumLen("noncompliant_rules", compliance, folded)
  /\ group_compliance.evaluated_rules
       = SumLen("compliant_rules", compliance, folded)
           + SumLen("noncompliant_rules", compliance, folded)
  /\ group_compliance.evaluated_rules
       = group_compliance.compliant_rule_evaluations
           + group_compliance.noncompliant_rule_evaluations

\* two resources folded, with compliant and noncompliant rules among them
C9_Witness ==
  /\ folded = 2
  /\ group_compliance.compliant_rule_evaluations > 0
  /\ group_compliance.noncompliant_rule_evaluations > 1

Perms(n) == {p \in [1..n -> 1..n] : \A a, b \in 1..n : p[a] = p[b] => a = b}

RECURSIVE FoldLeft(_, _)
\* compliance.iter().fold(default, accumulate_group_compliance) over cs
FoldLeft(cs, n) ==
  IF n = 0 THEN DefaultGroupCompliance
  ELSE accumulate_group_compliance(FoldLeft(cs, n - 1), cs[n])

\* C10: the six counters do not depend on the order of the resources:
\* evaluating and folding any permutation of the same resources against the
\* same rules ends in the same aggregate.
C10_OrderIndependent ==
  pc = "done" =>
    \A p \in Perms(Len(resources)) :
      LET cs == [n \in 1..Len(resources) |-> evaluate_rules(resources[p[n]], rules)]
      IN  FoldLeft(cs, Len(cs)) = group_compliance

\* two resources with different numbers of compliant rules, one of them
\* without a noncompliant rule, the other with one
C10_Witness ==
  /\ pc = "done"
  /\ Len(compliance) = 2
  /\ Len(compliance[1].compliant_rules) # Len(compliance[2].compliant_rules)
  /\ Len(compliance[1].noncompliant_rules) = 0
  /\ Len(compliance[2].noncompliant_rules) > 0

RECURSIVE IsSubsequence(_, _)
\* sub is seq with some of its elements left out
IsSubsequence(sub, seq) ==
  IF sub = <<>> THEN TRUE
  ELSE IF seq = <<>> THEN FALSE
  ELSE IF Head(sub) = Head(seq) THEN IsSubsequence(Tail(sub), Tail(seq))
  ELSE IsSubsequence(sub, Tail(seq))

\* two elements of out stand in the order their only occurrences have in seq
KeepsOrder(out, seq) ==
  \A j1, j2 \in DOMAIN out :
    j1 < j2 /\ Count(out[j1], seq) = 1 /\ Count(out[j2], seq) = 1 =>
      \E k1, k2 \in DOMAIN seq :
        k1 < k2 /\ seq[k1] = out[j1] /\ seq[k2] = out[j2]

\* C11: the compliant list and the noncompliant list of evaluate_rules are
\* each a subsequence of the rule list, so their elements are rules of the
\* list as they stand there, and two rules of one list are in the order they
\* have in the rule list.
C11_BucketsKeepFileOrder ==
  \A n \in DOMAIN compliance :
    /\ IsSubsequence(compliance[n].compliant_rules, rules)
    /\ IsSubsequence(compliance[n].noncompliant_rules, rules)
    /\ KeepsOrder(compliance[n].compliant_rules, rules)
    /\ KeepsOrder(compliance[n].noncompliant_rules, rules)

\* a resource with two different compliant rules, and one with two
\* different noncompliant rules
C11_Witness ==
  /\ \E n \in DOMAIN compliance :
       /\ Len(compliance[n].compliant_rules) >= 2
       /\ compliance[n].compliant_rules[1] # compliance[n].compliant_rules[2]
  /\ \E n \in DOMAIN compliance :
       /\ Len(compliance[n].noncompliant_rules) >= 2
       /\ compliance[n].noncompliant_rules[1] # compliance[n].noncompliant_rules[2]

----------------------------------------------------------------------------
(* Resource::selector_applies on its own: every selector of one to four    *)
(* parts, against every resource                                           *)

CloudValues == {Star, AZURE, <<"A", "z", "u", "r", "e">>, <<"a", "w", "s">>}

GroupValues == {Star, <<"r", "g">>, <<"R", "G">>, <<>>}

KindValues ==
  {Star, AppService, AppServicePlan,
   <<"A", "p", "p", "_", "s", "e", "r", "v", "i", "c", "e">>}

NameValues == {Star, <<"n", "1">>, <<"N", "1">>, <<"n", "2">>}

Dot == <<".">>

SelectorTexts ==
  {c : c \in CloudValues}
    \cup {c \o Dot \o g : c \in CloudValues, g \in GroupValues}
    \cup {c \o Dot \o g \o Dot \o k :
            c \in CloudValues, g \in GroupValues, k \in KindValues}
    \cup {c \o Dot \o g \o Dot \o k \o Dot \o n :
            c \in CloudValues, g \in GroupValues, k \in KindValues,
            n \in NameValues}

InitSelector ==
  /\ pc = "apply"
  /\ selector \in {SelectorTryFrom(t) : t \in SelectorTexts}
  /\ resource \in ResourceSet
  /\ applies = FALSE
  /\ rules = <<>> /\ resources = <<>> /\ compliance = <<>>
  /\ group_compliance = DefaultGroupCompliance /\ folded = 0
  /\ score = NoScore
  /\ file = <<>> /\ contents = <<>> /\ parsed = <<>>
  /\ response = <<>> /\ fetched = <<>>

\* main.rs:36  resource.selector_applies(&rule.selector)
SelectorApplies ==
  /\ pc = "apply"
  /\ applies' = selector_applies(resource, selector)
  /\ pc' = "applied"
  /\ UNCHANGED <<rules, resources, compliance, group_compliance, folded,
                 score, selector, resource, file, contents, parsed,
                 response, fetched>>

NextSelector == SelectorApplies

SpecSelector == InitSelector /\ [][NextSelector]_vars

\* the resource's field at each of the four positions of a selector; every
\* resource of this client is an Azure resource
FieldPasses(sel_field, resource_field) ==
  sel_field = Star \/ sel_field = resource_field

\* C4: selector_applies is true if and only if each of the four fields of
\* the selector is * or equal, character for character, to the resource's
\* field; the four tests are independent and all four must pass.
C4_SelectorApplies ==
  pc = "applied" =>
    (applies <=> /\ FieldPasses(selector.cloud, AZURE)
                 /\ FieldPasses(selector.group, Group(resource))
                 /\ FieldPasses(selector.kind, Kind(resource))
                 /\ FieldPasses(selector.name, Name(resource)))

\* a selector that applies with three literal fields and one wildcard
C4_Witness ==
  /\ pc = "applied"
  /\ applies
  /\ selector.cloud = AZURE
  /\ selector.group = Group(resource)
  /\ selector.kind = Star
  /\ selector.name = Name(resource)

----------------------------------------------------------------------------
(* Client::get_resources, from the records of the response on *)

\* an object without an id
RecNoId == Object(KeyLocation :> String(<<"u", "k">>))

\* an object whose id is a number
RecNumberId == Object(KeyId :> Number(<<"7">>))

\* an array element that is no object
RecString == String(<<"n", "1">>)

\* an id that stops after the subscription
RecShortId == Object(KeyId :> String(TagSubscriptions \o <<"s", "1">>))

\* an id whose name has a character that name() does not take
RecUnderscore ==
  Object((KeyId :> String(IdText(<<"r", "g">>, MicrosoftWeb,
                                 <<"s", "i", "t", "e", "s">>,
                                 <<"n", "_", "1">>)))
         @@ (KeyLocation :> String(<<"u", "k">>)))

RecordSet ==
  {RecSite, RecFarm, RecOther, RecNoId, RecNumberId, RecString, RecShortId,
   RecUnderscore}

RECURSIVE FilterMap(_, _)
\* arr.iter().filter_map(|r| Resource::try_from(r.clone()).ok()).collect():
\* the resources of the first n records, or the panic of one of them
FilterMap(arr, n) ==
  IF n = 0 THEN [outcome |-> "ok", val |-> <<>>]
  ELSE LET before == FilterMap(arr, n - 1)
           r == ResourceTryFrom(arr[n])
       IN  IF before.outcome = "panic" \/ r.outcome = "panic"
           THEN [outcome |-> "panic", val |-> <<>>]
           ELSE IF r.outcome = "ok"
           THEN [outcome |-> "ok", val |-> Append(before.val, r.val)]
           ELSE before

get_resources(arr) == FilterMap(arr, Len(arr))

InitFetch ==
  /\ pc = "fetch"
  /\ response \in Seqs(RecordSet, MaxRecords)
  /\ fetched = <<>>
  /\ rules = <<>> /\ resources = <<>> /\ compliance = <<>>
  /\ group_compliance = DefaultGroupCompliance /\ folded = 0
  /\ score = NoScore
  /\ selector = SelectorTryFrom(Star) /\ resource = <<>> /\ applies = FALSE
  /\ file = <<>> /\ contents = <<>> /\ parsed = <<>>

\* main.rs:114  client.get_resources(subscription_id, resource_group_name)
GetResources ==
  /\ pc = "fetch"
  /\ fetched' = get_resources(response)
  /\ pc' = IF fetched'.outcome = "panic" THEN "panicked" ELSE "fetched"
  /\ resources' = fetched'.val
  /\ UNCHANGED <<rules, compliance, group_compliance, folded, score,
                 selector, resource, applies, file, contents, parsed,
                 response>>

NextFetch == GetResources

SpecFetch == InitFetch /\ [][NextFetch]_vars

\* a record that has a string id of the expected path
Interpretable(rec) ==
  /\ as_str(Index(rec, KeyId)).some
  /\ LET id == as_str(Index(rec, KeyId)).val
         p == IdParser(id)
     IN  p.end = Len(id)

\* C8: a record that cannot be read as a Resource (no string id, or an id
\* that is not of the expected path) is left out of the set, the failure is
\* not escalated, and the other records are still returned.
C8_BadRecordsOmitted ==
  pc # "fetch" =>
    /\ pc = "fetched"
    /\ Len(resources) = Len(SelectSeq(response, Interpretable))
    /\ \A n \in DOMAIN resources :
         resources[n].value = SelectSeq(response, Interpretable)[n]

----------------------------------------------------------------------------
(* parser.rs: the grammar of the rule file.  A parser that builds a value  *)
(* returns [end, val], with Fail or Panic as end when it does not succeed. *)

NoValue(e) == [end |-> e, val |-> <<>>]

\* opt(parser): the position is kept when the parser fails
Opt(pos, e) == IF e = Fail THEN pos ELSE e

\* alt((a, b)) of two parsers' results: b counts when a failed
Alt(a, b) == IF a.end # Fail THEN a ELSE b

opening_brace(i, pos) == tag(<<"{">>, i, pos)

closing_brace(i, pos) == tag(<<"}">>, i, pos)

\* peek(tag("//")) and then take_until("\n"): the newline is not consumed,
\* and without a newline in the rest of the input the parser fails
comment(i, pos) ==
  IF tag(<<"/", "/">>, i, pos) < 0 THEN tag(<<"/", "/">>, i, pos)
  ELSE take_until(<<"\n">>, i, pos)

space_or_comment(i, pos) ==
  IF multispace1(i, pos) # Fail THEN multispace1(i, pos) ELSE comment(i, pos)

RECURSIVE many0_count_space_or_comment(_, _)
\* many0_count(space_or_comment); each round consumes a character, so the
\* combinator's error for a round that consumes nothing does not occur
many0_count_space_or_comment(i, pos) ==
  IF pos < 0 THEN pos
  ELSE IF space_or_comment(i, pos) = Fail THEN pos
  ELSE many0_count_space_or_comment(i, space_or_comment(i, pos))

parse_selector(i, pos) ==
  IF take_while1(SelectorChar, i, pos) < 0
  THEN NoValue(take_while1(SelectorChar, i, pos))
  ELSE [end |-> take_while1(SelectorChar, i, pos),
        val |-> SelectorTryFrom(Text(i, pos, take_while1(SelectorChar, i, pos)))]

parse_property(i, pos) ==
  IF alpha1(i, pos) < 0 THEN NoValue(alpha1(i, pos))
  ELSE [end |-> alpha1(i, pos),
        val |-> PropertyTryFrom(Text(i, pos, alpha1(i, pos)))]

Quote == <<"\"">>

\* the text between the quotes, p1 after the opening quote and p2 after
\* the letters
ValueOf(i, p1, p2) ==
  IF tag(Quote, i, p2) < 0 THEN NoValue(tag(Quote, i, p2))
  ELSE [end |-> tag(Quote, i, p2), val |-> Text(i, p1, p2)]

parse_value(i, pos) ==
  ValueOf(i, tag(Quote, i, pos), alpha1(i, tag(Quote, i, pos)))

EqualOf(v) == IF v.end < 0 THEN v ELSE [end |-> v.end, val |-> Equal(v.val)]

equal_rule(i, pos) ==
  EqualOf(parse_value(i, space1(i, tag(<<"=">>, i, pos))))

\* the pattern between the slashes, p1 after the opening slash and p2
\* before the closing one; Regex::new(pattern).unwrap() panics on a pattern
\* that does not compile
RegexOf(i, p1, p2) ==
  IF tag(Slash, i, p2) < 0 THEN NoValue(tag(Slash, i, p2))
  ELSE IF ~RegexNew(Text(i, p1, p2)).ok THEN NoValue(Panic)
  ELSE [end |-> tag(Slash, i, p2), val |-> RegexNew(Text(i, p1, p2)).pattern]

parse_regex(i, pos) ==
  RegexOf(i, tag(Slash, i, pos), take_until(Slash, i, tag(Slash, i, pos)))

MatchOf(re) == IF re.end < 0 THEN re ELSE [end |-> re.end, val |-> Match(re.val)]

match_rule(i, pos) ==
  MatchOf(parse_regex(i, space1(i, tag(<<"~", "=">>, i, pos))))

ConditionOf(prop, cond) ==
  IF cond.end < 0 THEN cond
  ELSE [end |-> cond.end, val |-> <<prop.val, cond.val>>]

\* the condition after its property, p2 after the spaces
ConditionAfter(i, prop, p2) ==
  ConditionOf(prop, Alt(equal_rule(i, p2), match_rule(i, p2)))

rule_condition(i, pos) ==
  ConditionAfter(i, parse_property(i, pos),
                 space1(i, parse_property(i, pos).end))

\* the line delimiter without the optional comment before the newline
rule_block_line_delim_bare(i, pos) ==
  IF pos < 0 THEN pos
  ELSE many0_count_space_or_comment(i, tag(<<"\n">>, i, pos))

rule_block_line_delim(i, pos) ==
  IF pos < 0 THEN pos
  ELSE many0_count_space_or_comment(
         i, tag(<<"\n">>, i, Opt(pos, comment(i, pos))))

RECURSIVE ConditionLinesLoop(_, _, _)
\* one round of separated_list(rule_block_line_delim, rule_condition), c
\* the condition parsed after the separator: when the separator or the
\* condition fails, the list ends before the separator
ConditionLinesNext(i, pos, acc, c) ==
  IF c.end = Fail THEN [end |-> pos, val |-> acc]
  ELSE IF c.end = Panic THEN NoValue(Panic)
  ELSE ConditionLinesLoop(i, c.end, Append(acc, c.val))

ConditionLinesLoop(i, pos, acc) ==
  ConditionLinesNext(i, pos, acc,
                     rule_condition(i, rule_block_line_delim(i, pos)))

\* the first element of the list: without it the list is empty
ConditionLinesFirst(i, pos, c) ==
  IF c.end = Fail THEN [end |-> pos, val |-> <<>>]
  ELSE IF c.end = Panic THEN NoValue(Panic)
  ELSE ConditionLinesLoop(i, c.end, <<c.val>>)

rule_condition_lines(i, pos) ==
  IF pos < 0 THEN NoValue(pos)
  ELSE ConditionLinesFirst(i, pos, rule_condition(i, pos))

\* the rules of a block: one for each condition, with the block's selector
RulesOf(sel, conditions, end) ==
  IF end < 0 THEN NoValue(end)
  ELSE [end |-> end,
        val |-> [k \in DOMAIN conditions.val |->
                   Rule(sel.val, conditions.val[k][1], conditions.val[k][2])]]

BlockClose(i, sel, conditions) ==
  RulesOf(sel, conditions,
          closing_brace(i, multispace1(i, conditions.end)))

BlockAfter(i, sel) ==
  BlockClose(i, sel,
             rule_condition_lines(
               i, multispace1(i, opening_brace(i, space1(i, sel.end)))))

rule_block(i, pos) ==
  IF pos < 0 THEN NoValue(pos) ELSE BlockAfter(i, parse_selector(i, pos))

RECURSIVE RuleBlocksLoop(_, _, _)
\* one round of separated_list(rule_block_line_delim, rule_block), with the
\* rules of the blocks flattened as they come
RuleBlocksNext_prepending(i, pos, acc, b) ==
  IF b.end = Fail THEN [end |-> pos, val |-> acc]
  ELSE IF b.end = Panic THEN NoValue(Panic)
  ELSE RuleBlocksLoop(i, b.end, b.val \o acc)

RuleBlocksNext(i, pos, acc, b) ==
  IF b.end = Fail THEN [end |-> pos, val |-> acc]
  ELSE IF b.end = Panic THEN NoValue(Panic)
  ELSE RuleBlocksLoop(i, b.end, acc \o b.val)

RuleBlocksLoop(i, pos, acc) ==
  RuleBlocksNext(i, pos, acc, rule_block(i, rule_block_line_delim(i, pos)))

RuleBlocksFirst(i, pos, b) ==
  IF b.end = Fail THEN [end |-> pos, val |-> <<>>]
  ELSE IF b.end = Panic THEN NoValue(Panic)
  ELSE RuleBlocksLoop(i, b.end, b.val)

rule_blocks(i, pos) == RuleBlocksFirst(i, pos, rule_block(i, pos))

\* all_consuming(..) of the position after the file's last separator, and
\* the unwrap of its result: Some(rules), or a panic
AllConsumed(i, blocks, end) ==
  IF end = Len(i) THEN [outcome |-> "some", rules |-> blocks.val]
  ELSE [outcome |-> "panic", rules |-> <<>>]

AfterBlocks(i, blocks) ==
  AllConsumed(i, blocks, many0_count_space_or_comment(i, blocks.end))

parse_rules(i) ==
  AfterBlocks(i, rule_blocks(i, many0_count_space_or_comment(i, 0)))

----------------------------------------------------------------------------
(* The rule files of the model.  A file has up to two blocks, the first of *)
(* two condition lines, with a separator before the first block (pre),     *)
(* between the condition lines (line), between the blocks (mid) and after  *)
(* the last block (post).  A separator is a sequence of a space, a newline *)
(* and a comment; a comment ends at a newline or at the end of the file.   *)

SepElements == {"sp", "nl", "cm"}

RenderElement(e) ==
  CASE e = "sp" -> <<" ">>
    [] e = "nl" -> <<"\n">>
    [] e = "cm" -> <<"/", "/", "c">>

RECURSIVE RenderSep(_)
RenderSep(sep) ==
  IF sep = <<>> THEN <<>> ELSE RenderElement(Head(sep)) \o RenderSep(Tail(sep))

\* every comment is followed by a newline; the last may end the file
WellFormed(sep, at_end) ==
  \A k \in DOMAIN sep :
    sep[k] = "cm" => \/ k < Len(sep) /\ sep[k + 1] = "nl"
                     \/ at_end /\ k = Len(sep)

SepSet(at_end) ==
  {sep \in Seqs(SepElements, MaxSepLen) : WellFormed(sep, at_end)}

Newline == <<"nl">>

Defects ==
  {"none", "unterminated_block", "unterminated_regex", "bad_regex",
   "malformed_token"}

Files ==
  {f \in [pre : SepSet(FALSE), line : SepSet(FALSE) \ {<<>>},
          mid : SepSet(FALSE) \ {<<>>}, post : SepSet(TRUE),
          nblocks : 0..2, defect : Defects] :
     /\ f.nblocks = 0 => f.defect = "none" /\ f.pre = Newline
     /\ f.nblocks = 0 => f.line = Newline
     /\ f.nblocks < 2 => f.mid = Newline
     /\ \E a, b \in {"pre", "line", "mid", "post"} :
          \A place \in {"pre", "line", "mid", "post"} \ {a, b} :
            f[place] = Newline}

\* azure.rg {
\*   location = "uk" <line> name ~= /^n/
\* }
Block1(line, defect) ==
  <<"a", "z", "u", "r", "e", ".", "r", "g", " ", "{", "\n", "\t">>
    \o KeyLocation \o <<" ", "=", " ", "\"", "u">>
    \o (IF defect = "malformed_token" THEN <<"1">> ELSE <<"k">>)
    \o <<"\"">> \o RenderSep(line)
    \o PropName \o <<" ", "~", "=", " ", "/">>
    \o (IF defect = "bad_regex" THEN <<"(">> ELSE <<"^">>) \o <<"n">>
    \o (IF defect = "unterminated_regex" THEN <<>> ELSE <<"/">>)
    \o <<"\n">>
    \o (IF defect = "unterminated_block" THEN <<>> ELSE <<"}">>)

\* * {
\*   tier ~= /1/
\* }
Block2 ==
  <<"*", " ", "{", "\n", "\t">> \o KeyTier
    \o <<" ", "~", "=", " ", "/", "1", "/", "\n", "}">>

Render(f) ==
  (IF f.nblocks >= 1 THEN RenderSep(f.pre) \o Block1(f.line, f.defect) ELSE <<>>)
    \o (IF f.nblocks = 2 THEN RenderSep(f.mid) \o Block2 ELSE <<>>)
    \o RenderSep(f.post)

Block1Selector == SelectorTryFrom(<<"a", "z", "u", "r", "e", ".", "r", "g">>)

\* the rules of the blocks, whatever the separators
ExpectedRules(nblocks) ==
  (IF nblocks >= 1
   THEN <<Rule(Block1Selector, PropertyTryFrom(KeyLocation), Equal(<<"u", "k">>)),
          Rule(Block1Selector, PropertyTryFrom(PropName), Match(<<"^", "n">>))>>
   ELSE <<>>)
    \o (IF nblocks = 2
        THEN <<Rule(SelectorTryFrom(Star), PropertyTryFrom(KeyTier),
                    Match(<<"1">>))>>
        ELSE <<>>)

InitParse ==
  /\ pc = "parse"
  /\ file \in Files
  /\ contents = Render(file)
  /\ parsed = <<>>
  /\ rules = <<>> /\ resources = <<>> /\ compliance = <<>>
  /\ group_compliance = DefaultGroupCompliance /\ folded = 0
  /\ score = NoScore
  /\ selector = SelectorTryFrom(Star) /\ resource = <<>> /\ applies = FALSE
  /\ response = <<>> /\ fetched = <<>>

\* main.rs:148  parser::parse_rules(FILE)
ParseRules ==
  /\ pc = "parse"
  /\ parsed' = parse_rules(contents)
  /\ pc' = IF parsed'.outcome = "panic" THEN "panicked" ELSE "parsed"
  /\ rules' = parsed'.rules
  /\ UNCHANGED <<resources, compliance, group_compliance, folded, score,
                 selector, resource, applies, file, contents, response,
                 fetched>>

NextParse == ParseRules

SpecParse == InitParse /\ [][NextParse]_vars

\* C3: parsing is all or nothing.  A file with a malformed token, an
\* unterminated block or a regex literal that does not compile ends in a
\* failure result that tells a syntax failure from a pattern failure and
\* has no rules; the failure is a value handed to the caller, the process
\* is not terminated.
C3_FailureIsAValue ==
  pc # "parse" /\ file.defect # "none" =>
    /\ pc # "panicked"
    /\ parsed.outcome = (IF file.defect = "bad_regex" THEN "pattern_error"
                         ELSE "syntax_error")
    /\ parsed.rules = <<>>

StartsLine(sep) == sep # <<>> /\ sep[1] # "sp"

AcceptedSeparators(f) ==
  /\ f.nblocks >= 1 => StartsLine(f.line)
  /\ f.nblocks = 2 => StartsLine(f.mid)
  /\ f.post = <<>> \/ f.post[Len(f.post)] # "cm"

----------------------------------------------------------------------------
(* parse_rules on files of blocks: up to MaxBlocks blocks, each with a     *)
(* selector token of one to five parts and up to MaxConditions condition   *)
(* lines that all differ, in the layout of tests::test_rule_block.         *)

\* the parts of the selector tokens; a part may be empty
TokenParts ==
  { <<AZURE>>,
    <<AZURE, <<"r", "g">> >>,
    <<Star, <<"t", "-", "r", "g">>, AppService>>,
    <<AZURE, <<"r", "g">>, AppService, <<"n", "_", "1">> >>,
    <<<<"a">>, <<"b">>, <<"c">>, <<"d">>, <<"e">> >>,
    <<<<"a">>, <<>>, <<"b">> >> }

RECURSIVE JoinDots(_)
\* the parts with a dot between each two
JoinDots(parts) ==
  IF Len(parts) = 1 THEN parts[1]
  ELSE parts[1] \o Dot \o JoinDots(Tail(parts))

\* k times the character c
Repeat(c, k) == [j \in 1..k |-> c]

\* the k-th condition line of a block: location = "u..u" for an odd k,
\* name ~= /^n..n/ for an even k
ConditionText(k) ==
  IF k % 2 = 1
  THEN KeyLocation \o <<" ", "=", " ", "\"">> \o Repeat("u", k) \o <<"\"">>
  ELSE PropName \o <<" ", "~", "=", " ", "/", "^">> \o Repeat("n", k) \o <<"/">>

RECURSIVE ConditionTexts(_)
\* the first n condition lines, each on a line of its own
ConditionTexts(n) ==
  IF n = 1 THEN ConditionText(1)
  ELSE ConditionTexts(n - 1) \o <<"\n", "\t">> \o ConditionText(n)

BlockText(b) ==
  JoinDots(b.parts) \o <<" ", "{", "\n", "\t">> \o ConditionTexts(b.n)
    \o <<"\n", "}">>

RECURSIVE BlockTexts(_)
\* every block followed by a newline
BlockTexts(blocks) ==
  IF blocks = <<>> THEN <<>>
  ELSE BlockText(Head(blocks)) \o <<"\n">> \o BlockTexts(Tail(blocks))

BlockFiles ==
  [blocks : Seqs([parts : TokenParts, n : 1..MaxConditions], MaxBlocks)]

InitBlocks ==
  /\ pc = "parse"
  /\ file \in BlockFiles
  /\ contents = BlockTexts(file.blocks)
  /\ parsed = <<>>
  /\ rules = <<>> /\ resources = <<>> /\ compliance = <<>>
  /\ group_compliance = DefaultGroupCompliance /\ folded = 0
  /\ score = NoScore
  /\ selector = SelectorTryFrom(Star) /\ resource = <<>> /\ applies = FALSE
  /\ response = <<>> /\ fetched = <<>>

NextBlocks == ParseRules

SpecBlocks == InitBlocks /\ [][NextBlocks]_vars

\* the field of a selector that its k-th part gives
FieldOf(parts, k) == IF k <= Len(parts) THEN parts[k] ELSE <<"*">>

\* rule is the rule of the k-th condition line of a block with these parts
IsRuleOfLine(rule, parts, k) ==
  /\ rule.selector.cloud = FieldOf(parts, 1)
  /\ rule.selector.group = FieldOf(parts, 2)
  /\ rule.selector.kind = FieldOf(parts, 3)
  /\ rule.selector.name = FieldOf(parts, 4)
  /\ IF k % 2 = 1
     THEN /\ rule.property = PropertyTryFrom(KeyLocation)
          /\ rule.condition = Equal(Repeat("u", k))
     ELSE /\ rule.property = PropertyTryFrom(PropName)
          /\ rule.condition = Match(<<"^">> \o Repeat("n", k))

RECURSIVE LinesBefore(_, _)
\* the number of condition lines of the blocks before the m-th
LinesBefore(blocks, m) ==
  IF m = 1 THEN 0 ELSE LinesBefore(blocks, m - 1) + blocks[m - 1].n

\* C12: a block with n condition lines yields n rules in the order of its
\* lines, each with the selector that the block's token gives when split on
\* dots, a field without a part being *, and the rules of a file are the
\* rules of its blocks one block after the other in file order.
C12_BlocksYieldTheirRules ==
  pc # "parse" =>
    /\ parsed.outcome = "some"
    /\ Len(rules) = LinesBefore(file.blocks, Len(file.blocks) + 1)
    /\ \A m \in DOMAIN file.blocks :
         \A k \in 1..file.blocks[m].n :
           IsRuleOfLine(rules[LinesBefore(file.blocks, m) + k],
                        file.blocks[m].parts, k)

\* a parsed file of two blocks with different selector tokens, one of two
\* parts and one of five, the first block with two condition lines
C12_Witness ==
  /\ pc = "parsed"
  /\ Len(file.blocks) = 2
  /\ file.blocks[1].n = 2
  /\ Len(file.blocks[1].parts) = 2
  /\ Len(file.blocks[2].parts) = 5
  /\ Len(rules) = 2 + file.blocks[2].n

====
